---- MODULE Spec2Model ----
(***************************************************************************)
(* The assistant bot of task_4/assistant.py: the tokenizer parse_input,    *)
(* the handlers add_contact / change_contact / show_phone / show_all, the  *)
(* decorator input_error and the command loop of main.                     *)
(*                                                                         *)
(* A Python str is a sequence of one-character strings, so that every      *)
(* text (a line, an argument, a printed message) is compared character by  *)
(* character.  A Python dict is the sequence of its items in insertion     *)
(* order.                                                                  *)
(***************************************************************************)
EXTENDS Integers, Sequences, FiniteSets, TLC

VARIABLES
    contacts,     \* main: the dict contacts, as the sequence of its items
    status,       \* main: "Running" inside the while loop, "Terminated" after break, "Faulted" if an exception left main
    output,       \* the texts printed by the last pass through the loop (or by the start of main)
    last,         \* what the last pass through the loop read: [kind, command, args]
    recent,       \* history: {<<name, phone>>} of the latest successful add/change of each name
    order,        \* history: the names in the order of their successful add
    tok_pc,       \* tokenizer harness: "idle", "start", "parsed", "reparsed"
    tok_input,    \* tokenizer harness: the line handed to parse_input
    tok_result,   \* tokenizer harness: <<command, args>> returned by parse_input
    tok_second,   \* tokenizer harness: <<command, args>> of the rejoined line
    cache,        \* caching_fibonacci: the dict cache of the closure, as the set of its <<key, value>> items
    fib_call      \* the last call of the closure: [called, n, raised, value]

vars == <<contacts, status, output, last, recent, order,
          tok_pc, tok_input, tok_result, tok_second, cache, fib_call>>

sessionVars == <<contacts, status, output, last, recent, order>>
tokVars == <<tok_pc, tok_input, tok_result, tok_second>>
fibVars == <<cache, fib_call>>

-----------------------------------------------------------------------------
(* Bounds *)

MaxArgs == 3      \* raw argument tokens on a session line
MaxLine == 6      \* characters of a line handed to the tokenizer harness
MaxN == 14        \* the largest argument of a call of fibonacci

RECURSIVE SeqsUpTo(_, _)
\* the sequences over S of length at most n
SeqsUpTo(S, n) ==
    IF n = 0 THEN {<<>>}
    ELSE LET shorter == SeqsUpTo(S, n - 1)
         IN  shorter \cup {Append(s, c) : s \in {t \in shorter : Len(t) = n - 1}, c \in S}

-----------------------------------------------------------------------------
(* Characters and the str methods the program uses *)

DQ == "\""
SQ == "'"
SP == " "
TAB == "\t"
None == "None"

\* the characters str.split() and str.strip() treat as whitespace
WHITESPACE == {" ", "\t", "\n", "\r"}

UPPER == <<"A","B","C","D","E","F","G","H","I","J","K","L","M",
           "N","O","P","Q","R","S","T","U","V","W","X","Y","Z">>
LOWER == <<"a","b","c","d","e","f","g","h","i","j","k","l","m",
           "n","o","p","q","r","s","t","u","v","w","x","y","z">>

\* str.lower() of one character
lower_char(c) ==
    IF \E i \in 1..26 : UPPER[i] = c
    THEN LOWER[CHOOSE i \in 1..26 : UPPER[i] = c]
    ELSE c

\* str.lower()
lower(s) == [i \in 1..Len(s) |-> lower_char(s[i])]

RECURSIVE split_from(_, _, _, _)
split_from(s, i, cur, words) ==
    IF i > Len(s)
    THEN IF cur = <<>> THEN words ELSE Append(words, cur)
    ELSE IF s[i] \in WHITESPACE
         THEN split_from(s, i + 1, <<>>, IF cur = <<>> THEN words ELSE Append(words, cur))
         ELSE split_from(s, i + 1, Append(cur, s[i]), words)

\* str.split(): the maximal runs of non-whitespace characters
split(s) == split_from(s, 1, <<>>, <<>>)

RECURSIVE join(_, _)
\* sep.join(words)
join(sep, words) ==
    IF words = <<>> THEN <<>>
    ELSE IF Len(words) = 1 THEN words[1]
    ELSE words[1] \o sep \o join(sep, Tail(words))

RECURSIVE lstrip(_)
lstrip(s) == IF s # <<>> /\ s[1] \in WHITESPACE THEN lstrip(Tail(s)) ELSE s

RECURSIVE rstrip(_)
rstrip(s) ==
    IF s # <<>> /\ s[Len(s)] \in WHITESPACE THEN rstrip(SubSeq(s, 1, Len(s) - 1)) ELSE s

\* str.strip()
strip(s) == rstrip(lstrip(s))

RECURSIVE first_word_len(_, _)
first_word_len(s, i) ==
    IF i > Len(s) \/ s[i] \in WHITESPACE THEN i - 1 ELSE first_word_len(s, i + 1)

\* str.split(maxsplit=1): the first word, then what follows the whitespace
\* after it (its own trailing whitespace kept), if anything follows
split_maxsplit1(s) ==
    LET t == lstrip(s)
        n == first_word_len(t, 1)
        rest == lstrip(SubSeq(t, n + 1, Len(t)))
    IN  IF t = <<>> THEN <<>>
        ELSE IF rest = <<>> THEN <<SubSeq(t, 1, n)>>
        ELSE <<SubSeq(t, 1, n), rest>>

\* str.endswith(('"', "'"))
endswith_quote(s) == s # <<>> /\ s[Len(s)] \in {DQ, SQ}

-----------------------------------------------------------------------------
(* parse_input *)

RECURSIVE scan_from(_, _, _, _, _)
\* the for loop over args_string, from character i on
scan_from(s, i, current_arg, in_quotes, args) ==
    IF i > Len(s)
    THEN [current_arg |-> current_arg, in_quotes |-> in_quotes, args |-> args]
    ELSE LET char == s[i] IN
         IF in_quotes # None
         THEN IF char = in_quotes
              THEN scan_from(s, i + 1, current_arg, None, args)
              ELSE scan_from(s, i + 1, Append(current_arg, char), in_quotes, args)
         ELSE IF char \in {DQ, SQ}
              THEN scan_from(s, i + 1, current_arg, char, args)
              ELSE IF char = SP
                   THEN scan_from(s, i + 1, <<>>, None,
                                  IF current_arg # <<>> THEN Append(args, current_arg) ELSE args)
                   ELSE scan_from(s, i + 1, Append(current_arg, char), None, args)

RECURSIVE scan_from_always_appending(_, _, _, _, _)
\* mutant: a space appends current_arg without the "if current_arg" test
scan_from_always_appending(s, i, current_arg, in_quotes, args) ==
    IF i > Len(s)
    THEN [current_arg |-> current_arg, in_quotes |-> in_quotes, args |-> args]
    ELSE LET char == s[i] IN
         IF in_quotes # None
         THEN IF char = in_quotes
              THEN scan_from_always_appending(s, i + 1, current_arg, None, args)
              ELSE scan_from_always_appending(s, i + 1, Append(current_arg, char), in_quotes, args)
         ELSE IF char \in {DQ, SQ}
              THEN scan_from_always_appending(s, i + 1, current_arg, char, args)
              ELSE IF char = SP
                   THEN scan_from_always_appending(s, i + 1, <<>>, None, Append(args, current_arg))
                   ELSE scan_from_always_appending(s, i + 1, Append(current_arg, char), None, args)

scan_always_appending(args_string) ==
    scan_from_always_appending(args_string, 1, <<>>, None, <<>>)

RECURSIVE scan_from_any_quote_closing(_, _, _, _, _)
\* mutant: in_quotes is a flag, so either quote character closes a quoted span
scan_from_any_quote_closing(s, i, current_arg, in_quotes, args) ==
    IF i > Len(s)
    THEN [current_arg |-> current_arg, in_quotes |-> in_quotes, args |-> args]
    ELSE LET char == s[i] IN
         IF in_quotes # None
         THEN IF char \in {DQ, SQ}
              THEN scan_from_any_quote_closing(s, i + 1, current_arg, None, args)
              ELSE scan_from_any_quote_closing(s, i + 1, Append(current_arg, char), in_quotes, args)
         ELSE IF char \in {DQ, SQ}
              THEN scan_from_any_quote_closing(s, i + 1, current_arg, char, args)
              ELSE IF char = SP
                   THEN scan_from_any_quote_closing(s, i + 1, <<>>, None,
                            IF current_arg # <<>> THEN Append(args, current_arg) ELSE args)
                   ELSE scan_from_any_quote_closing(s, i + 1, Append(current_arg, char), None, args)

scan_any_quote_closing(args_string) ==
    scan_from_any_quote_closing(args_string, 1, <<>>, None, <<>>)

\* the state of the loop variables when the for loop ends
scan(args_string) == scan_from(args_string, 1, <<>>, None, <<>>)

\* mutant: the condition lacks "and not args"
final_append_ignoring_args(current_arg, in_quotes, args_string, args) ==
    \/ current_arg # <<>>
    \/ /\ current_arg = <<>>
       /\ in_quotes = None
       /\ endswith_quote(args_string)

\* mutant: the condition lacks "current_arg or", so the last word is lost
final_append_quote_only(current_arg, in_quotes, args_string, args) ==
    /\ current_arg = <<>>
    /\ in_quotes = None
    /\ endswith_quote(args_string)
    /\ args = <<>>

\* mutant: what an unclosed quote has collected is discarded
final_append_closed_only(current_arg, in_quotes, args_string, args) ==
    /\ in_quotes = None
    /\ \/ current_arg # <<>>
       \/ endswith_quote(args_string) /\ args = <<>>

\* the if after the loop: whether current_arg is appended
final_append(current_arg, in_quotes, args_string, args) ==
    \/ current_arg # <<>>
    \/ /\ current_arg = <<>>
       /\ in_quotes = None
       /\ endswith_quote(args_string)
       /\ args = <<>>

\* parse_input on a remainder: the loop and the if after it
parse_args(args_string) ==
    LET st == scan(args_string) IN
    IF final_append(st.current_arg, st.in_quotes, args_string, st.args)
    THEN Append(st.args, st.current_arg)
    ELSE st.args

\* mutant: the command is not lower-cased
parse_input_not_lowering(user_input) ==
    LET normalized == join(<<SP>>, split(user_input))
        parts == split_maxsplit1(normalized)
    IN  IF normalized = <<>> THEN << <<>>, <<>> >>
        ELSE IF Len(parts) = 1 THEN << strip(parts[1]), <<>> >>
        ELSE << strip(parts[1]), parse_args(parts[2]) >>

\* mutant: the line is stripped but its whitespace runs are not collapsed
parse_input_not_normalizing(user_input) ==
    LET parts == split_maxsplit1(strip(user_input))
    IN  IF strip(user_input) = <<>> THEN << <<>>, <<>> >>
        ELSE IF Len(parts) = 1 THEN << lower(strip(parts[1])), <<>> >>
        ELSE << lower(strip(parts[1])), parse_args(parts[2]) >>

parse_input(user_input) ==
    LET normalized == join(<<SP>>, split(user_input))
        parts == split_maxsplit1(normalized)
    IN  IF normalized = <<>> THEN << <<>>, <<>> >>
        ELSE IF Len(parts) = 1 THEN << lower(strip(parts[1])), <<>> >>
        ELSE << lower(strip(parts[1])), parse_args(parts[2]) >>

-----------------------------------------------------------------------------
(* The texts of the program *)

\* assistant.py line 6
UNIVERSAL_ERROR_MESSAGE ==
    <<"E","n","t","e","r"," ","t","h","e"," ","a","r","g","u","m","e","n",
      "t"," ","f","o","r"," ","t","h","e"," ","c","o","m","m","a","n","d">>

\* add_contact's return value
CONTACT_ADDED ==
    <<"C","o","n","t","a","c","t"," ","a","d","d","e","d",".">>

\* change_contact's return value
CONTACT_UPDATED ==
    <<"C","o","n","t","a","c","t"," ","u","p","d","a","t","e","d",".">>

\* show_all's return value for an empty dict
NO_CONTACTS ==
    <<"N","o"," ","c","o","n","t","a","c","t","s"," ","s","a","v","e","d",
      ".">>

\* main's first print
WELCOME ==
    <<"W","e","l","c","o","m","e"," ","t","o"," ","t","h","e"," ","a","s",
      "s","i","s","t","a","n","t"," ","b","o","t","!">>

\* main's print on exit and close
GOOD_BYE ==
    <<"G","o","o","d"," ","b","y","e","!">>

\* main's print on EOFError
GOOD_BYE_EOF ==
    <<"\n","G","o","o","d"," ","b","y","e","!">>

\* main's print on hello
HOW_CAN_I_HELP ==
    <<"H","o","w"," ","c","a","n"," ","I"," ","h","e","l","p"," ","y","o",
      "u","?">>

\* main's print on an unknown command
INVALID_COMMAND ==
    <<"I","n","v","a","l","i","d"," ","c","o","m","m","a","n","d",".">>

CMD_HELLO ==
    <<"h","e","l","l","o">>

CMD_ADD ==
    <<"a","d","d">>

CMD_CHANGE ==
    <<"c","h","a","n","g","e">>

CMD_PHONE ==
    <<"p","h","o","n","e">>

CMD_ALL ==
    <<"a","l","l">>

CMD_EXIT ==
    <<"e","x","i","t">>

CMD_CLOSE ==
    <<"c","l","o","s","e">>

-----------------------------------------------------------------------------
(* The dict contacts: the sequence of its items [name, phone] in insertion order *)

\* name in contacts
has_key(d, k) == \E i \in 1..Len(d) : d[i].name = k

\* contacts[name], for a name in contacts
get_item(d, k) == d[CHOOSE i \in 1..Len(d) : d[i].name = k].phone

\* mutant: an updated key moves to the end, as after del then insert
set_item_moving_to_end(d, k, v) ==
    Append(SelectSeq(d, LAMBDA item : item.name # k), [name |-> k, phone |-> v])

\* contacts[name] = phone: a present key keeps its place, a new one goes last
set_item(d, k, v) ==
    IF has_key(d, k)
    THEN [i \in 1..Len(d) |-> IF d[i].name = k THEN [name |-> k, phone |-> v] ELSE d[i]]
    ELSE Append(d, [name |-> k, phone |-> v])

keys(d) == {d[i].name : i \in 1..Len(d)}

-----------------------------------------------------------------------------
(* The handlers.  A call ends by returning a text or by raising; either    *)
(* way it leaves the dict it was given in some state.                      *)

Returned(v, d) == [raised |-> None, value |-> v, contacts |-> d]
Raised(e, d) == [raised |-> e, value |-> <<>>, contacts |-> d]

\* the exceptions the except clause of inner names
CAUGHT == {"ValueError", "IndexError", "KeyError"}

\* mutant: the except clause names IndexError and KeyError only
input_error_without_ValueError(res) ==
    IF res.raised \in {"IndexError", "KeyError"}
    THEN Returned(UNIVERSAL_ERROR_MESSAGE, res.contacts)
    ELSE res

\* the decorator: inner, applied to the outcome of func
input_error(res) ==
    IF res.raised \in CAUGHT
    THEN Returned(UNIVERSAL_ERROR_MESSAGE, res.contacts)
    ELSE res

\* mutant: no "if name in contacts" test, the assignment overwrites
add_contact_func_overwriting(args, d) ==
    IF Len(args) # 2 THEN Raised("ValueError", d)
    ELSE Returned(CONTACT_ADDED, set_item(d, args[1], args[2]))

\* mutant: "name, phone = args[0], args[1]", which lets further arguments pass
add_contact_func_indexing(args, d) ==
    IF Len(args) < 2 THEN Raised("IndexError", d)
    ELSE IF has_key(d, args[1]) THEN Raised("ValueError", d)
         ELSE Returned(CONTACT_ADDED, set_item(d, args[1], args[2]))

\* the body of add_contact; "name, phone = args" raises ValueError unless len(args) == 2
add_contact_func(args, d) ==
    IF Len(args) # 2 THEN Raised("ValueError", d)
    ELSE LET name == args[1]
             phone == args[2]
         IN  IF has_key(d, name) THEN Raised("ValueError", d)
             ELSE Returned(CONTACT_ADDED, set_item(d, name, phone))

add_contact(args, d) == input_error(add_contact_func(args, d))

\* mutant: no "if name not in contacts" test, the assignment inserts
change_contact_func_inserting(args, d) ==
    IF Len(args) # 2 THEN Raised("ValueError", d)
    ELSE Returned(CONTACT_UPDATED, set_item(d, args[1], args[2]))

\* mutant: the assignment contacts[name] = new_phone is missing
change_contact_func_not_storing(args, d) ==
    IF Len(args) # 2 THEN Raised("ValueError", d)
    ELSE IF ~has_key(d, args[1]) THEN Raised("KeyError", d)
         ELSE Returned(CONTACT_UPDATED, d)

\* the body of change_contact
change_contact_func(args, d) ==
    IF Len(args) # 2 THEN Raised("ValueError", d)
    ELSE LET name == args[1]
             new_phone == args[2]
         IN  IF ~has_key(d, name) THEN Raised("KeyError", d)
             ELSE Returned(CONTACT_UPDATED, set_item(d, name, new_phone))

change_contact(args, d) == input_error(change_contact_func(args, d))

\* the body of show_phone; args[0] raises IndexError on an empty list
show_phone_func(args, d) ==
    IF Len(args) = 0 THEN Raised("IndexError", d)
    ELSE LET name == args[1]
         IN  IF ~has_key(d, name) THEN Raised("KeyError", d)
             ELSE Returned(get_item(d, name), d)

show_phone(args, d) == input_error(show_phone_func(args, d))

\* f"{name}: {phone}"
contact_line(item) == item.name \o <<":", " ">> \o item.phone

show_all(d) ==
    IF d = <<>> THEN Returned(NO_CONTACTS, d)
    ELSE Returned(join(<<"\n">>, [i \in 1..Len(d) |-> contact_line(d[i])]), d)

-----------------------------------------------------------------------------
(* main: the lines the input source can deliver *)

CmdWords ==
    {CMD_HELLO, CMD_ADD, CMD_CHANGE, CMD_PHONE, CMD_ALL, CMD_EXIT, CMD_CLOSE,
     <<"E","X","I","T">>, <<"C","l","o","s","e">>, <<"A","d","d">>, <<"f","o","o">>}

\* the argument tokens as typed: a bare word, a quoted two-word name, an empty quoted span
RawArgs == {<<"a">>, <<DQ, "a", SP, "b", DQ>>, <<DQ, DQ>>}

PlainLines == {join(<<SP>>, <<w>> \o ts) : w \in CmdWords, ts \in SeqsUpTo(RawArgs, MaxArgs)}

PaddedLines == {<<SP>> \o join(<<SP, SP>>, <<w>> \o ts) \o <<SP, TAB>> :
                    w \in CmdWords, ts \in SeqsUpTo(RawArgs, 1)}

BlankLines == {<<>>, <<SP, TAB>>}

SessionLines == BlankLines \cup PlainLines \cup PaddedLines

-----------------------------------------------------------------------------
(* main: one action per way through the body of the while loop *)

Init ==
    /\ contacts = <<>>
    /\ status = "Running"
    /\ output = <<WELCOME>>
    /\ last = [kind |-> "none", command |-> <<>>, args |-> <<>>]
    /\ recent = {}
    /\ order = <<>>
    /\ tok_pc = "idle"
    /\ tok_input = <<>>
    /\ tok_result = << <<>>, <<>> >>
    /\ tok_second = << <<>>, <<>> >>
    /\ cache = {}
    /\ fib_call = [called |-> FALSE, n |-> 0, raised |-> None, value |-> 0]

\* input(...).strip()
user_input(l) == strip(l)

\* the lines as main holds them after input(...).strip()
UserInputs == {user_input(l) : l \in SessionLines}

\* command, args = parse_input(user_input), for every line that passes
\* the "if not user_input" test
Reads ==
    {LET parsed == parse_input(u)
     IN  [command |-> parsed[1], args |-> parsed[2]] : u \in UserInputs \ {<<>>}}

\* the line was tokenized to command c
Tokenized(r, c) ==
    /\ status = "Running"
    /\ r.command = c

Read(r) == [kind |-> "command", command |-> r.command, args |-> r.args]

\* print(handler(args, contacts)): the text is printed, or the exception leaves main
PrintResult(res) ==
    /\ contacts' = res.contacts
    /\ IF res.raised = None
       THEN output' = <<res.value>> /\ status' = "Running"
       ELSE output' = <<>> /\ status' = "Faulted"

\* mutant: no try/except around input(), the EOFError leaves main
EndOfInput_uncaught ==
    /\ status = "Running"
    /\ status' = "Faulted"
    /\ output' = <<>>
    /\ last' = [kind |-> "eof", command |-> <<>>, args |-> <<>>]
    /\ UNCHANGED <<contacts, recent, order>>
    /\ UNCHANGED <<tokVars, fibVars>>

\* input() raises EOFError
EndOfInput ==
    /\ status = "Running"
    /\ status' = "Terminated"
    /\ output' = <<GOOD_BYE_EOF>>
    /\ last' = [kind |-> "eof", command |-> <<>>, args |-> <<>>]
    /\ UNCHANGED <<contacts, recent, order>>
    /\ UNCHANGED <<tokVars, fibVars>>

\* mutant: no "if not user_input: continue"; parse_input("") gives ("", []),
\* which falls through to the final else
BlankLine_dispatching(u) ==
    /\ status = "Running"
    /\ u = <<>>
    /\ output' = <<INVALID_COMMAND>>
    /\ last' = [kind |-> "blank", command |-> <<>>, args |-> <<>>]
    /\ UNCHANGED <<contacts, status, recent, order>>
    /\ UNCHANGED <<tokVars, fibVars>>

\* if not user_input: continue
BlankLine(u) ==
    /\ status = "Running"
    /\ u = <<>>
    /\ output' = <<>>
    /\ last' = [kind |-> "blank", command |-> <<>>, args |-> <<>>]
    /\ UNCHANGED <<contacts, status, recent, order>>
    /\ UNCHANGED <<tokVars, fibVars>>

Exit(r) ==
    /\ \E c \in {CMD_CLOSE, CMD_EXIT} : Tokenized(r, c)
    /\ status' = "Terminated"
    /\ output' = <<GOOD_BYE>>
    /\ last' = Read(r)
    /\ UNCHANGED <<contacts, recent, order>>
    /\ UNCHANGED <<tokVars, fibVars>>

Hello(r) ==
    /\ Tokenized(r, CMD_HELLO)
    /\ output' = <<HOW_CAN_I_HELP>>
    /\ last' = Read(r)
    /\ UNCHANGED <<contacts, status, recent, order>>
    /\ UNCHANGED <<tokVars, fibVars>>

\* history: the phone of name is now phone
Record(name, phone) == {p \in recent : p[1] # name} \cup {<<name, phone>>}

Add(r) ==
    /\ Tokenized(r, CMD_ADD)
    /\ LET args == r.args
           res == add_contact(args, contacts)
       IN  /\ PrintResult(res)
           /\ IF res.raised = None /\ res.value = CONTACT_ADDED /\ Len(args) >= 2
              THEN recent' = Record(args[1], args[2]) /\ order' = Append(order, args[1])
              ELSE UNCHANGED <<recent, order>>
    /\ last' = Read(r)
    /\ UNCHANGED <<tokVars, fibVars>>

Change(r) ==
    /\ Tokenized(r, CMD_CHANGE)
    /\ LET args == r.args
           res == change_contact(args, contacts)
       IN  /\ PrintResult(res)
           /\ IF res.raised = None /\ res.value = CONTACT_UPDATED /\ Len(args) >= 2
              THEN recent' = Record(args[1], args[2])
              ELSE UNCHANGED recent
    /\ last' = Read(r)
    /\ UNCHANGED order
    /\ UNCHANGED <<tokVars, fibVars>>

Phone(r) ==
    /\ Tokenized(r, CMD_PHONE)
    /\ PrintResult(show_phone(r.args, contacts))
    /\ last' = Read(r)
    /\ UNCHANGED <<recent, order>>
    /\ UNCHANGED <<tokVars, fibVars>>

All(r) ==
    /\ Tokenized(r, CMD_ALL)
    /\ PrintResult(show_all(contacts))
    /\ last' = Read(r)
    /\ UNCHANGED <<recent, order>>
    /\ UNCHANGED <<tokVars, fibVars>>

KnownCommands == {CMD_CLOSE, CMD_EXIT, CMD_HELLO, CMD_ADD, CMD_CHANGE, CMD_PHONE, CMD_ALL}

\* mutant: the final else prints the message of input_error
Invalid_normalized(r) ==
    /\ status = "Running"
    /\ r.command \notin KnownCommands
    /\ output' = <<UNIVERSAL_ERROR_MESSAGE>>
    /\ last' = Read(r)
    /\ UNCHANGED <<contacts, status, recent, order>>
    /\ UNCHANGED <<tokVars, fibVars>>

\* the final else
Invalid(r) ==
    /\ status = "Running"
    /\ r.command \notin KnownCommands
    /\ output' = <<INVALID_COMMAND>>
    /\ last' = Read(r)
    /\ UNCHANGED <<contacts, status, recent, order>>
    /\ UNCHANGED <<tokVars, fibVars>>

Next ==
    \/ EndOfInput
    \/ \E u \in UserInputs : BlankLine(u)
    \/ \E r \in Reads : Exit(r)
    \/ \E r \in Reads : Hello(r)
    \/ \E r \in Reads : Add(r)
    \/ \E r \in Reads : Change(r)
    \/ \E r \in Reads : Phone(r)
    \/ \E r \in Reads : All(r)
    \/ \E r \in Reads : Invalid(r)

Spec == Init /\ [][Next]_vars

\* the session on a finite input stream: the input source delivers finitely
\* many lines, so input() cannot be kept from raising EOFError forever
SpecFiniteInput == Init /\ [][Next]_vars /\ WF_vars(EndOfInput)

-----------------------------------------------------------------------------
(* The tokenizer harness: parse_input applied to every line of a bounded set *)

TokAlphabet == {"a", "B", SP, TAB, DQ, SQ}

\* the lines handed to parse_input: every line of at most MaxLine characters
TokLines(n) == SeqsUpTo(TokAlphabet, n)

InitTok ==
    /\ contacts = <<>>
    /\ status = "Running"
    /\ output = <<WELCOME>>
    /\ last = [kind |-> "none", command |-> <<>>, args |-> <<>>]
    /\ recent = {}
    /\ order = <<>>
    /\ tok_pc = "start"
    /\ tok_input \in TokLines(MaxLine)
    /\ tok_result = << <<>>, <<>> >>
    /\ tok_second = << <<>>, <<>> >>
    /\ cache = {}
    /\ fib_call = [called |-> FALSE, n |-> 0, raised |-> None, value |-> 0]

\* parse_input(tok_input)
Tokenize ==
    /\ tok_pc = "start"
    /\ tok_pc' = "parsed"
    /\ tok_result' = parse_input(tok_input)
    /\ UNCHANGED <<tok_input, tok_second>>
    /\ UNCHANGED <<sessionVars, fibVars>>

\* the command and the arguments joined by single spaces
rejoin(command, args) == join(<<SP>>, <<command>> \o args)

\* parse_input on the rejoined result of the first call
Retokenize ==
    /\ tok_pc = "parsed"
    /\ tok_pc' = "reparsed"
    /\ tok_second' = parse_input(rejoin(tok_result[1], tok_result[2]))
    /\ UNCHANGED <<tok_input, tok_result>>
    /\ UNCHANGED <<sessionVars, fibVars>>

NextTok == Tokenize \/ Retokenize

SpecTok == InitTok /\ [][NextTok]_vars

-----------------------------------------------------------------------------
(* task_1/caching_fibonacci.py: the closure fibonacci and its dict cache *)

\* n in cache
in_cache(c, n) == \E p \in c : p[1] = n

\* cache[n], for n in cache
cache_get(c, n) == (CHOOSE p \in c : p[1] = n)[2]

\* cache[n] = result
cache_set(c, n, result) == {p \in c : p[1] # n} \cup {<<n, result>>}

RECURSIVE fibonacci_caching_previous(_, _)
\* mutant: the result is stored as cache[n - 1]
fibonacci_caching_previous(n, c) ==
    IF n < 0 THEN [raised |-> "ValueError", value |-> 0, cache |-> c]
    ELSE IF n <= 0 THEN [raised |-> None, value |-> 0, cache |-> c]
    ELSE IF n = 1 THEN [raised |-> None, value |-> 1, cache |-> c]
    ELSE IF in_cache(c, n) THEN [raised |-> None, value |-> cache_get(c, n), cache |-> c]
    ELSE LET first == fibonacci_caching_previous(n - 1, c)
             second == fibonacci_caching_previous(n - 2, first.cache)
             result == first.value + second.value
         IN  [raised |-> None, value |-> result,
              cache |-> cache_set(second.cache, n - 1, result)]

RECURSIVE fibonacci(_, _)
\* fibonacci(n) on the cache c: what the call raises or returns, and the
\* cache it leaves; the recursive calls run one after the other on the same dict
fibonacci(n, c) ==
    IF n < 0 THEN [raised |-> "ValueError", value |-> 0, cache |-> c]
    ELSE IF n <= 0 THEN [raised |-> None, value |-> 0, cache |-> c]
    ELSE IF n = 1 THEN [raised |-> None, value |-> 1, cache |-> c]
    ELSE IF in_cache(c, n) THEN [raised |-> None, value |-> cache_get(c, n), cache |-> c]
    ELSE LET first == fibonacci(n - 1, c)
             second == fibonacci(n - 2, first.cache)
             result == first.value + second.value
         IN  [raised |-> None, value |-> result,
              cache |-> cache_set(second.cache, n, result)]

\* caching_fibonacci(): cache = {} and the closure, not called yet
InitFib ==
    /\ contacts = <<>>
    /\ status = "Running"
    /\ output = <<WELCOME>>
    /\ last = [kind |-> "none", command |-> <<>>, args |-> <<>>]
    /\ recent = {}
    /\ order = <<>>
    /\ tok_pc = "idle"
    /\ tok_input = <<>>
    /\ tok_result = << <<>>, <<>> >>
    /\ tok_second = << <<>>, <<>> >>
    /\ cache = {}
    /\ fib_call = [called |-> FALSE, n |-> 0, raised |-> None, value |-> 0]

\* one call fibonacci(n) of the closure by its user
Fibonacci(n) ==
    /\ LET res == fibonacci(n, cache)
       IN  /\ cache' = res.cache
           /\ fib_call' = [called |-> TRUE, n |-> n, raised |-> res.raised, value |-> res.value]
    /\ UNCHANGED <<sessionVars, tokVars>>

NextFib == \E n \in (-2)..MaxN : Fibonacci(n)

SpecFib == InitFib /\ [][NextFib]_vars

-----------------------------------------------------------------------------
(* Claims about the handlers and the command loop, checked under Spec.     *)
(* In a step of the loop, last' is what the step read and dispatched,      *)
(* contacts the dict before it and contacts', output' the dict and the     *)
(* printed texts after it.                                                 *)

\* the step invoked the handler of command c with n arguments
Invoked(c, n) ==
    /\ last'.kind = "command"
    /\ last'.command = c
    /\ Len(last'.args) = n

\* the step printed the unified error message and left the dict as it was
Rejected == output' = <<UNIVERSAL_ERROR_MESSAGE>> /\ contacts' = contacts

\* C1: add [name, phone] with a name that is already a key returns exactly
\* "Enter the argument for the command" and leaves the store unchanged.
C1_DuplicateAddRejected ==
    [][(Invoked(CMD_ADD, 2) /\ last'.args[1] \in keys(contacts)) => Rejected]_vars

C1_Witness ==
    /\ last.kind = "command" /\ last.command = CMD_ADD /\ Len(last.args) = 2
    /\ last.args[1] \in keys(contacts)
    /\ output = <<UNIVERSAL_ERROR_MESSAGE>>

\* C2: phone [name] and change [name, new_phone] with a name that is not a
\* key both return exactly "Enter the argument for the command" and leave
\* the store unchanged; change never creates an entry.
C2_UnknownNameRejected ==
    [][/\ (Invoked(CMD_PHONE, 1) /\ last'.args[1] \notin keys(contacts)) => Rejected
       /\ (Invoked(CMD_CHANGE, 2) /\ last'.args[1] \notin keys(contacts)) => Rejected]_vars

C2_Witness ==
    /\ last.kind = "command" /\ last.command = CMD_CHANGE /\ Len(last.args) = 2
    /\ last.args[1] \notin keys(contacts)
    /\ contacts # <<>>
    /\ output = <<UNIVERSAL_ERROR_MESSAGE>>

\* C3 as claimed: add, change (arity 2) and phone (arity 1) invoked with any
\* other number of arguments, fewer or more, return the unified error
\* message and leave the store unchanged.
C3_AnyArityMismatchRejected ==
    [][/\ (\E n \in 0..(MaxArgs + 1) : n # 2 /\ Invoked(CMD_ADD, n)) => Rejected
       /\ (\E n \in 0..(MaxArgs + 1) : n # 2 /\ Invoked(CMD_CHANGE, n)) => Rejected
       /\ (\E n \in 0..(MaxArgs + 1) : n # 1 /\ Invoked(CMD_PHONE, n)) => Rejected]_vars

\* C3 as amended: add and change with a number of arguments other than 2,
\* and phone with no argument, are rejected; phone with more than one
\* argument ignores the further ones: it returns the phone stored for its
\* first argument, or the unified error message if that is no key, and
\* leaves the store unchanged.
C3_ArityMismatch ==
    [][/\ (\E n \in 0..(MaxArgs + 1) : n # 2 /\ Invoked(CMD_ADD, n)) => Rejected
       /\ (\E n \in 0..(MaxArgs + 1) : n # 2 /\ Invoked(CMD_CHANGE, n)) => Rejected
       /\ Invoked(CMD_PHONE, 0) => Rejected
       /\ (\E n \in 2..(MaxArgs + 1) : Invoked(CMD_PHONE, n)) =>
             /\ contacts' = contacts
             /\ IF last'.args[1] \in keys(contacts)
                THEN \E i \in 1..Len(contacts) :
                        /\ contacts[i].name = last'.args[1]
                        /\ output' = <<contacts[i].phone>>
                ELSE output' = <<UNIVERSAL_ERROR_MESSAGE>>]_vars

C3_Witness ==
    /\ last.kind = "command" /\ last.command = CMD_PHONE /\ Len(last.args) = 2
    /\ \E i \in 1..Len(contacts) :
          contacts[i].name = last.args[1] /\ output = <<contacts[i].phone>>

\* the dict as the set of its <<name, phone>> pairs
Pairs(d) == {<<d[i].name, d[i].phone>> : i \in 1..Len(d)}

\* C4: phone [name] for a stored name returns exactly the phone given by the
\* most recent successful add or change of that name: a successful add
\* prints "Contact added." and stores name -> phone, a successful change
\* prints "Contact updated." and overwrites that name's phone only, and
\* nothing else alters what is stored.
C4_PhoneReturnsMostRecent ==
    [][/\ Pairs(contacts') = recent'
       /\ (Invoked(CMD_PHONE, 1) /\ last'.args[1] \in keys(contacts)) =>
             \E p \in recent : p[1] = last'.args[1] /\ output' = <<p[2]>>
       /\ (Invoked(CMD_ADD, 2) /\ output' = <<CONTACT_ADDED>>) =>
             <<last'.args[1], last'.args[2]>> \in Pairs(contacts')
       /\ (Invoked(CMD_CHANGE, 2) /\ output' = <<CONTACT_UPDATED>>) =>
             /\ <<last'.args[1], last'.args[2]>> \in Pairs(contacts')
             /\ {p \in Pairs(contacts') : p[1] # last'.args[1]}
                   = {p \in Pairs(contacts) : p[1] # last'.args[1]}]_vars

C4_Witness ==
    /\ last.kind = "command" /\ last.command = CMD_PHONE /\ Len(last.args) = 1
    /\ Len(contacts) = 2
    /\ \E p \in recent : p[1] = last.args[1] /\ output = <<p[2]>>

\* the phone last recorded for a name
RecentPhone(name) == (CHOOSE p \in recent : p[1] = name)[2]

\* the listing of the names in the order of their first successful add
Listing ==
    join(<<"\n">>, [i \in 1..Len(order) |-> order[i] \o <<":", " ">> \o RecentPhone(order[i])])

\* C5: all returns "No contacts saved." exactly when the store is empty;
\* otherwise one "name: phone" line per contact, joined by newlines, in the
\* order of the first successful add of each name, whatever changes and
\* failed commands came in between.
C5_AllListsInInsertionOrder ==
    [][(last'.kind = "command" /\ last'.command = CMD_ALL) =>
          /\ (output' = <<NO_CONTACTS>>) <=> (contacts = <<>>)
          /\ contacts # <<>> => output' = <<Listing>>]_vars

C5_Witness ==
    /\ last.kind = "command" /\ last.command = CMD_ALL
    /\ Len(contacts) = 2
    /\ output = <<Listing>>

\* the commands that end the session, and those whose handlers can raise
ExitCommands == {CMD_EXIT, CMD_CLOSE}
FallibleCommands == {CMD_ADD, CMD_CHANGE, CMD_PHONE}

\* C10: the session leaves Running only for Terminated, and only on exit,
\* close or end of input; no add, change or phone lets an exception leave
\* the handler or ends the session, and after a rejected command the
\* session is Running with the store unchanged.
C10_OnlyExitOrEofTerminates ==
    [][/\ status' # "Faulted"
       /\ (status = "Running" /\ status' # "Running") =>
             /\ status' = "Terminated"
             /\ \/ last'.kind = "eof"
                \/ last'.kind = "command" /\ last'.command \in ExitCommands
       /\ (last'.kind = "command" /\ last'.command \in FallibleCommands) =>
             /\ status' = "Running"
             /\ Len(output') = 1
             /\ output' = <<UNIVERSAL_ERROR_MESSAGE>> => contacts' = contacts]_vars

C10_Witness ==
    /\ last.kind = "command" /\ last.command = CMD_ADD /\ Len(last.args) = 3
    /\ output = <<UNIVERSAL_ERROR_MESSAGE>>
    /\ status = "Running"

-----------------------------------------------------------------------------
(* Claims about parse_input, checked under SpecTok.                        *)

\* the two-state machine of the tokenizer contract, one character at a time:
\* Normal, or InQuote with the opening quote character q
RefStart == [state |-> "Normal", q |-> None, token |-> <<>>, tokens |-> <<>>]

RefStep(st, c) ==
    IF st.state = "Normal"
    THEN IF c \in {DQ, SQ}
         THEN [st EXCEPT !.state = "InQuote", !.q = c]
         ELSE IF c = SP
              THEN [st EXCEPT !.token = <<>>,
                              !.tokens = IF st.token # <<>> THEN Append(@, st.token) ELSE @]
              ELSE [st EXCEPT !.token = Append(@, c)]
    ELSE IF c = st.q
         THEN [st EXCEPT !.state = "Normal", !.q = None]
         ELSE [st EXCEPT !.token = Append(@, c)]

RECURSIVE RefRun(_)
RefRun(s) ==
    IF s = <<>> THEN RefStart
    ELSE RefStep(RefRun(SubSeq(s, 1, Len(s) - 1)), s[Len(s)])

\* the tokens of the machine, a non-empty buffer being pushed at the end
RefTokens(s) ==
    LET st == RefRun(s)
    IN  IF st.token # <<>> THEN Append(st.tokens, st.token) ELSE st.tokens

\* the first whitespace-delimited word of a line, lower-cased character by character
RefCommand(line) ==
    LET w == split(line)[1]
    IN  [i \in 1..Len(w) |->
            IF \E k \in 1..26 : UPPER[k] = w[i]
            THEN LOWER[CHOOSE k \in 1..26 : UPPER[k] = w[i]]
            ELSE w[i]]

\* the words after the first, separated by single spaces
RefRemainder(line) == join(<<SP>>, Tail(split(line)))

\* the remainder ends with a closed empty quoted span that is a token of its own
EndsWithEmptySpan(s) ==
    /\ Len(s) >= 2
    /\ s[Len(s)] \in {DQ, SQ}
    /\ s[Len(s) - 1] = s[Len(s)]
    /\ LET pre == SubSeq(s, 1, Len(s) - 2)
       IN  /\ pre = <<>> \/ pre[Len(pre)] = SP
           /\ RefRun(pre).state = "Normal"

\* parse_input has returned (the result is looked at once, right after the call)
Parsed == tok_pc = "parsed"

\* C6 as claimed: when the remainder ends with a closed empty quoted span,
\* the arguments end with one explicit empty string, whether or not other
\* arguments precede it.
C6_TrailingEmptySpanKept ==
    (Parsed /\ split(tok_input) # <<>> /\ EndsWithEmptySpan(RefRemainder(tok_input))) =>
        /\ tok_result[2] # <<>>
        /\ tok_result[2][Len(tok_result[2])] = <<>>

\* C6 as amended: when the remainder ends with a closed empty quoted span,
\* the arguments are exactly [""] if no argument precedes the span; if
\* arguments precede it the span is dropped and they are the whole result.
C6_TrailingEmptySpanKeptOnlyAlone ==
    (Parsed /\ split(tok_input) # <<>> /\ EndsWithEmptySpan(RefRemainder(tok_input))) =>
        LET s == RefRemainder(tok_input)
            preceding == RefTokens(SubSeq(s, 1, Len(s) - 2))
        IN  tok_result[2] = IF preceding = <<>> THEN << <<>> >> ELSE preceding

C6_Witness ==
    /\ Parsed
    /\ split(tok_input) # <<>>
    /\ EndsWithEmptySpan(RefRemainder(tok_input))
    /\ tok_result[2] = << <<"a">> >>

\* the places of a remainder where an empty quoted span followed by a space
\* stands as a token of its own
InteriorEmptySpans(s) ==
    {k \in 1..(Len(s) - 2) :
        /\ s[k] \in {DQ, SQ}
        /\ s[k + 1] = s[k]
        /\ s[k + 2] = SP
        /\ k = 1 \/ s[k - 1] = SP
        /\ RefRun(SubSeq(s, 1, k - 1)).state = "Normal"}

\* C7: an empty quoted span followed by further tokens contributes no
\* argument: every argument but a possible last one is non-empty, and the
\* arguments are those of the remainder without the span.
C7_InteriorEmptySpanDropped ==
    (Parsed /\ split(tok_input) # <<>>) =>
        LET s == RefRemainder(tok_input)
            args == tok_result[2]
        IN  /\ \A i \in 1..(Len(args) - 1) : args[i] # <<>>
            /\ \A k \in InteriorEmptySpans(s) :
                  args = parse_args(SubSeq(s, 1, k - 1) \o SubSeq(s, k + 3, Len(s)))

C7_Witness ==
    /\ Parsed
    /\ tok_input = <<"a", SP, DQ, DQ, SP, "B">>
    /\ tok_result[2] = << <<"B">> >>

\* C8 as claimed: the command is the lower-cased first word and the
\* arguments are the tokens of the two-state machine run over the
\* whitespace-collapsed remainder; an empty or all-whitespace line gives ("", []).
C8_ParseIsTwoStateScan ==
    Parsed =>
        tok_result = IF split(tok_input) = <<>> THEN << <<>>, <<>> >>
                     ELSE << RefCommand(tok_input), RefTokens(RefRemainder(tok_input)) >>

\* C8 as amended: as claimed, except that a remainder the machine leaves in
\* Normal with an empty buffer and no token, and that ends with a quote
\* character, gives the one argument "".
C8_ParseIsTwoStateScanPlusEmpty ==
    Parsed =>
        tok_result =
            IF split(tok_input) = <<>> THEN << <<>>, <<>> >>
            ELSE LET s == RefRemainder(tok_input)
                     st == RefRun(s)
                 IN  << RefCommand(tok_input),
                        IF /\ st.state = "Normal" /\ st.token = <<>> /\ st.tokens = <<>>
                           /\ s # <<>> /\ s[Len(s)] \in {DQ, SQ}
                        THEN << <<>> >>
                        ELSE RefTokens(s) >>

C8_Witness ==
    /\ Parsed
    /\ tok_input = <<"B", TAB, DQ, SP, SQ, DQ>>
    /\ tok_result = << <<"b">>, << <<SP, SQ>> >> >>

\* the quotes of the line are balanced: the machine ends in Normal
Balanced(line) ==
    split(line) = <<>> \/ RefRun(RefRemainder(line)).state = "Normal"

\* C9 as claimed: for a line with balanced quotes, tokenizing, rejoining
\* the arguments with single spaces after the command and tokenizing again
\* yields the arguments of the first tokenization.
C9_RejoinRoundTrip ==
    (tok_pc = "reparsed" /\ Balanced(tok_input)) => tok_second[2] = tok_result[2]

\* an argument that needs no quoting: not empty, no space, no quote character
Bare(arg) == arg # <<>> /\ \A i \in 1..Len(arg) : arg[i] \notin {SP, DQ, SQ}

\* C9 as amended: the round trip yields the same arguments for the lines
\* with balanced quotes whose arguments are all non-empty and contain
\* neither a space nor a quote character.
C9_RejoinRoundTripBare ==
    (/\ tok_pc = "reparsed"
     /\ Balanced(tok_input)
     /\ \A i \in 1..Len(tok_result[2]) : Bare(tok_result[2][i])) =>
        tok_second = tok_result

C9_Witness ==
    /\ tok_pc = "reparsed"
    /\ tok_input = <<"B", SP, SQ, "a", SQ, "B">>
    /\ tok_result = << <<"b">>, << <<"a", "B">> >> >>
    /\ tok_second = tok_result

-----------------------------------------------------------------------------
(* More claims about the command loop, checked under Spec.                 *)

\* the word w is the lower-case word c in some letter case
AnyCase(w, c) ==
    /\ Len(w) = Len(c)
    /\ \A i \in 1..Len(w) :
          w[i] = c[i] \/ \E k \in 1..26 : UPPER[k] = w[i] /\ LOWER[k] = c[i]

\* C11: a line whose first word is exit or close in any letter case, with
\* or without further arguments, takes the session from Running to
\* Terminated; Terminated is absorbing: nothing is read, dispatched or
\* stored afterwards.
C11_ExitTerminatesForGood ==
    [][/\ (last'.kind = "command" /\ \E c \in ExitCommands : AnyCase(last'.command, c)) =>
             /\ status = "Running"
             /\ status' = "Terminated"
             /\ contacts' = contacts
       /\ status = "Terminated" => UNCHANGED sessionVars]_vars

C11_Witness ==
    /\ status = "Terminated"
    /\ last.kind = "command" /\ last.command = CMD_CLOSE /\ Len(last.args) = 2
    /\ contacts # <<>>

\* the commands of the session
ListedCommands ==
    {CMD_HELLO, CMD_ADD, CMD_CHANGE, CMD_PHONE, CMD_ALL, CMD_EXIT, CMD_CLOSE}

\* C12: a non-blank line whose lower-cased command is none of hello, add,
\* change, phone, all, exit, close prints exactly "Invalid command.",
\* leaves the store unchanged and leaves the session Running.
C12_UnknownCommandIsInvalid ==
    [][(last'.kind = "command" /\ \A c \in ListedCommands : ~AnyCase(last'.command, c)) =>
          /\ output' = <<INVALID_COMMAND>>
          /\ contacts' = contacts
          /\ status = "Running" /\ status' = "Running"]_vars

C12_Witness ==
    /\ last.kind = "command" /\ last.command = <<"f", "o", "o">> /\ Len(last.args) = 2
    /\ output = <<INVALID_COMMAND>>
    /\ contacts # <<>>
    /\ status = "Running"

\* C13: every key of the contact store is a non-empty string, whatever
\* lines were entered, those with empty quoted spans included.
C13_KeysNonEmpty ==
    \A i \in 1..Len(contacts) : contacts[i].name # <<>>

C13_Witness ==
    /\ last.kind = "command" /\ last.command = CMD_ADD
    /\ last.args = << <<>> >>
    /\ output = <<UNIVERSAL_ERROR_MESSAGE>>
    /\ contacts # <<>>

\* C15: a line that is empty after trimming is neither tokenized nor
\* dispatched: nothing is printed for it, the store is unchanged and the
\* session stays Running.
C15_BlankLineSkipped ==
    [][last'.kind = "blank" =>
          /\ output' = <<>>
          /\ contacts' = contacts
          /\ last'.command = <<>> /\ last'.args = <<>>
          /\ status = "Running" /\ status' = "Running"]_vars

C15_Witness ==
    /\ last.kind = "blank"
    /\ output = <<>>
    /\ contacts # <<>>
    /\ status = "Running"

\* the commands that never touch the store
ReadOnlyCommands == {CMD_PHONE, CMD_ALL, CMD_HELLO}

\* C17: the set of keys never shrinks and changes only on a successful add,
\* which adds exactly one new key; change keeps the key set; phone, all,
\* hello, invalid commands and every failed add or change leave the whole
\* store unchanged.
C17_KeysOnlyGrowByAdd ==
    [][/\ keys(contacts) \subseteq keys(contacts')
       /\ keys(contacts') # keys(contacts) =>
             /\ Invoked(CMD_ADD, 2)
             /\ output' = <<CONTACT_ADDED>>
       /\ (last'.kind = "command" /\ last'.command = CMD_ADD /\ output' = <<CONTACT_ADDED>>) =>
             /\ Len(last'.args) = 2
             /\ last'.args[1] \notin keys(contacts)
             /\ keys(contacts') = keys(contacts) \cup {last'.args[1]}
             /\ Len(contacts') = Len(contacts) + 1
       /\ (last'.kind = "command" /\ last'.command = CMD_CHANGE) =>
             keys(contacts') = keys(contacts)
       /\ (/\ last'.kind = "command"
           /\ \/ last'.command \in ReadOnlyCommands
              \/ last'.command \notin ListedCommands
              \/ output' = <<UNIVERSAL_ERROR_MESSAGE>>) =>
             contacts' = contacts]_vars

C17_Witness ==
    /\ last.kind = "command" /\ last.command = CMD_CHANGE
    /\ output = <<CONTACT_UPDATED>>
    /\ Len(contacts) = 2

-----------------------------------------------------------------------------
(* More claims about parse_input, checked under SpecTok.                   *)

\* the remainder of the line ends inside a quote that is never closed
Unclosed(line) ==
    split(line) # <<>> /\ RefRun(RefRemainder(line)).state = "InQuote"

\* C14: a remainder that ends inside an unclosed quote is no error:
\* parse_input returns, the arguments completed before are returned
\* unchanged, and the characters collected since the last token boundary
\* are the final argument if and only if there are any.
C14_UnclosedQuoteFlushed ==
    (Parsed /\ Unclosed(tok_input)) =>
        LET st == RefRun(RefRemainder(tok_input))
            args == tok_result[2]
        IN  /\ Len(args) = Len(st.tokens) + (IF st.token # <<>> THEN 1 ELSE 0)
            /\ SubSeq(args, 1, Len(st.tokens)) = st.tokens
            /\ st.token # <<>> => args[Len(args)] = st.token

C14_Witness ==
    /\ Parsed
    /\ tok_input = <<"a", SP, "a", SP, DQ, "B">>
    /\ tok_result[2] = << <<"a">>, <<"B">> >>

\* an argument free of tabs and line breaks and of runs of two spaces
Collapsed(arg) ==
    /\ \A i \in 1..Len(arg) : arg[i] \notin {TAB, "\n", "\r"}
    /\ \A i \in 1..(Len(arg) - 1) : ~(arg[i] = SP /\ arg[i + 1] = SP)

-----------------------------------------------------------------------------
(* Termination of the command loop, checked under SpecFiniteInput.         *)

\* C16: on every finite input stream the session eventually reaches
\* Terminated: every line is tokenized and dispatched in one pass of the
\* loop, none of which faults, and the end of the stream is an ordinary
\* step from Running to Terminated.
C16_FiniteInputTerminates ==
    /\ <>(status = "Terminated")
    /\ [](status # "Faulted")
    /\ [][last'.kind = "eof" =>
             /\ status = "Running"
             /\ status' = "Terminated"
             /\ output' = <<GOOD_BYE_EOF>>
             /\ contacts' = contacts]_vars

C16_Witness ==
    /\ status = "Terminated"
    /\ last.kind = "eof"
    /\ Len(contacts) = 2

-----------------------------------------------------------------------------
(* The closure of caching_fibonacci, checked under SpecFib.                *)

RECURSIVE FibPair(_)
\* <<F(k), F(k + 1)>>, with F(0) = 0 and F(1) = 1
FibPair(k) ==
    IF k = 0 THEN <<0, 1>>
    ELSE LET before == FibPair(k - 1) IN <<before[2], before[1] + before[2]>>

\* the k-th Fibonacci number
Fib(k) == FibPair(k)[1]

\* C19: for one closure and any sequence of calls, every cache entry maps a
\* key n >= 2 to the n-th Fibonacci number, every call with n >= 0 returns
\* the n-th Fibonacci number whatever the cache holds, and a call with
\* n < 0 raises ValueError and leaves the cache as it was.
C19_CacheHoldsFibonacci ==
    [][/\ \A p \in cache' : p[1] >= 2 /\ p[2] = Fib(p[1])
       /\ \A p, q \in cache' : p[1] = q[1] => p = q
       /\ fib_call'.called
       /\ fib_call'.n >= 0 => fib_call'.raised = None /\ fib_call'.value = Fib(fib_call'.n)
       /\ fib_call'.n < 0 => fib_call'.raised = "ValueError" /\ cache' = cache]_vars

C19_Witness ==
    /\ fib_call.called /\ fib_call.n = 7 /\ fib_call.value = 13
    /\ \E p \in cache : p[1] = 10 /\ p[2] = 55

====
